---- MODULE Spec2Model ----
(***************************************************************************)
(* Barnes-Hut gravity simulation: the quadtree (quadtree.rs), the          *)
(* bounding box (rectangle.rs), the particle store (particle.rs) and the   *)
(* per-frame step (main.rs, utils.rs).                                     *)
(*                                                                         *)
(* Numbers.  The code computes in f32.  The model computes exactly:        *)
(*  - particle attributes (position, velocity, net force, mass) are        *)
(*    integers;                                                            *)
(*  - box coordinates are integers counted in 1/Scale of a world unit, so  *)
(*    that w * 0.5 is exact down to MaxDepth nested subdivisions;          *)
(*  - a center of mass is an exact rational, kept in lowest terms;         *)
(*  - the only rounded operations are sqrt and the final division of a     *)
(*    force or an acceleration, both truncated to an integer.              *)
(* f32 rounding itself is not modelled.                                    *)
(*                                                                         *)
(* Slots.  Slot i of the model (1..count) is index i-1 of the code.        *)
(* Option<T>: None is <<>>, Some(v) is <<v>>.                              *)
(***************************************************************************)
EXTENDS Integers, Sequences, FiniteSets, TLC

VARIABLES
    particles,   \* MyGame.particles: the ParticleSystem (structure of arrays)
    qt,          \* MyGame.qt: the root QuadTree
    pc,          \* position of the running handler
    force_idxs,  \* MyGame.force_idxs
    next_idx,    \* position of calculate_force_simd in force_idxs
    order,       \* slots handed to QuadTree::insert so far, in call order
    query_area,  \* Some(rectangle) of the last QuadTree::query, else None
    found,       \* the Vec<usize> the last QuadTree::query returned
    calls,       \* calculate_force calls made on qt: [idx, theta], in call order
    start,       \* the store as it was when the current update began
    frames,      \* number of update calls that have returned
    seen,        \* Some of what the last draw read, else None
    last,        \* the last ParticleSystem method called on the store directly
    applied,     \* number of those calls that were apply_forces_simd
    extremum     \* what find_max/min_velocity_norm returned, while it is the last call

vars == <<particles, qt, pc, force_idxs, next_idx, order, query_area, found, calls,
          start, frames, seen, last, applied, extremum>>

----------------------------------------------------------------------------
(* Bounds of the model *)

\* most particles in a store
MaxParticles == 3
\* nested subdivisions followed before an insertion is cut off as not returning
MaxDepth == 4

(* Program constants of consts.rs *)
WORLD_WIDTH == 8
WORLD_HEIGHT == 8
G == 64
SOFTENING == 4
\* the multipole acceptance threshold 0.5 of calculate_force, as a fraction
THETA == <<1, 2>>
\* f32::NAN, the value of 0.0 / 0.0
NaN == -1000000

----------------------------------------------------------------------------
(* Arithmetic *)

Abs(a) == IF a < 0 THEN -a ELSE a

RECURSIVE Pow2(_)
Pow2(n) == IF n = 0 THEN 1 ELSE 2 * Pow2(n - 1)

RECURSIVE Gcd(_, _)
Gcd(a, b) == IF b = 0 THEN a ELSE Gcd(b, a % b)

\* the rational n/d (d # 0) in lowest terms with a positive denominator
Rat(n, d) ==
    LET g == Gcd(Abs(n), Abs(d))
        s == IF d < 0 THEN -1 ELSE 1
    IN  <<(s * n) \div g, (s * d) \div g>>

RatOfInt(a) == <<a, 1>>

\* floor of the square root of n >= 0
RECURSIVE ISqrtIn(_, _, _)
ISqrtIn(n, lo, hi) ==
    IF lo >= hi THEN lo
    ELSE LET mid == (lo + hi + 1) \div 2
         IN  IF mid * mid <= n THEN ISqrtIn(n, mid, hi) ELSE ISqrtIn(n, lo, mid - 1)

\* f32 sqrt, truncated to an integer
Sqrt(n) == ISqrtIn(n, 0, IF n < 46340 THEN n ELSE 46340)

\* n / d (d # 0) truncated towards zero
Trunc(n, d) ==
    LET q == Abs(n) \div Abs(d)
    IN  IF (n < 0) = (d < 0) THEN q ELSE -q

\* f32 addition: NaN is absorbing
FAdd(a, b) == IF a = NaN \/ b = NaN THEN NaN ELSE a + b

\* f32 division n / d rounded to the model's integers; 0/0 and NaN give NaN
\* (no division of a non-zero value by zero arises: masses are positive)
FDiv(n, d) == IF n = NaN \/ d = NaN \/ (n = 0 /\ d = 0) THEN NaN ELSE Trunc(n, d)

\* box coordinates per world unit
Scale == Pow2(MaxDepth + 1)

None == <<>>
Some(v) == <<v>>

Vector2(x, y) == [x |-> x, y |-> y]

----------------------------------------------------------------------------
(* rectangle.rs *)

\* Rectangle::new; top_left_pos, w and h are counted in 1/Scale
Rectangle(top_left_pos, w, h) == [top_left_pos |-> top_left_pos, w |-> w, h |-> h]

\* a rectangle given in world units
WorldRect(x, y, w, h) == Rectangle(Vector2(x * Scale, y * Scale), w * Scale, h * Scale)

\* Rectangle::contains_point; pos is a position of the store, in world units
contains_point(self, pos) ==
    /\ self.top_left_pos.x <= pos.x * Scale
    /\ self.top_left_pos.y <= pos.y * Scale
    /\ self.top_left_pos.x + self.w > pos.x * Scale
    /\ self.top_left_pos.y + self.h > pos.y * Scale

\* mutant of intersects: the lower edge of self is taken at its top
intersects_no_height(self, rect) ==
    LET up    == rect.top_left_pos.y + rect.h < self.top_left_pos.y
        down  == rect.top_left_pos.y > self.top_left_pos.y
        left  == rect.top_left_pos.x + rect.w < self.top_left_pos.x
        right == rect.top_left_pos.x > self.top_left_pos.x + self.w
    IN  ~(up \/ down \/ left \/ right)

\* Rectangle::intersects
intersects(self, rect) ==
    LET up    == rect.top_left_pos.y + rect.h < self.top_left_pos.y
        down  == rect.top_left_pos.y > self.top_left_pos.y + self.h
        left  == rect.top_left_pos.x + rect.w < self.top_left_pos.x
        right == rect.top_left_pos.x > self.top_left_pos.x + self.w
    IN  ~(up \/ down \/ left \/ right)

----------------------------------------------------------------------------
(* particle.rs: accessors *)

\* ParticleSystem::get_position
get_position(p, idx) == Vector2(p.pos_x[idx], p.pos_y[idx])

\* ParticleSystem::get_velocity
get_velocity(p, idx) == Vector2(p.vel_x[idx], p.vel_y[idx])

\* ParticleSystem::get_net_force
get_net_force(p, idx) == Vector2(p.net_force_x[idx], p.net_force_y[idx])

----------------------------------------------------------------------------
(* quadtree.rs: construction *)

\* QuadTree::new: an empty leaf whose center_of_mass is the center of the box
NewQuadTree(bounds) ==
    [ bounds         |-> bounds,
      children       |-> <<None, None, None, None>>,
      particle_idx   |-> None,
      mass           |-> 0,
      center_of_mass |-> Vector2(Rat(2 * bounds.top_left_pos.x + bounds.w, 2 * Scale),
                                 Rat(2 * bounds.top_left_pos.y + bounds.h, 2 * Scale)) ]

\* QuadTree::is_leaf
is_leaf(self) == self.children[1] = None

\* w * 0.5
Half(w) == w \div 2

\* mutant of Quads: the third quadrant is not moved down by half_h
Quads_third_on_top(bounds) ==
    LET x == bounds.top_left_pos.x
        y == bounds.top_left_pos.y
        half_w == Half(bounds.w)
        half_h == Half(bounds.h)
    IN  << Rectangle(Vector2(x, y), half_w, half_h),
           Rectangle(Vector2(x + half_w, y), half_w, half_h),
           Rectangle(Vector2(x, y), half_w, half_h),
           Rectangle(Vector2(x + half_w, y + half_h), half_w, half_h) >>

\* the four boxes of QuadTree::subdivide
Quads(bounds) ==
    LET x == bounds.top_left_pos.x
        y == bounds.top_left_pos.y
        half_w == Half(bounds.w)
        half_h == Half(bounds.h)
    IN  << Rectangle(Vector2(x, y), half_w, half_h),
           Rectangle(Vector2(x + half_w, y), half_w, half_h),
           Rectangle(Vector2(x, y + half_h), half_w, half_h),
           Rectangle(Vector2(x + half_w, y + half_h), half_w, half_h) >>

\* QuadTree::subdivide
subdivide(self) ==
    [self EXCEPT !.children = [i \in 1..4 |-> Some(NewQuadTree(Quads(self.bounds)[i]))]]

\* the incremental center-of-mass update that ends QuadTree::insert
UpdateCenterOfMass(self, pos, m) ==
    LET new_mass == self.mass + m
        cx == self.center_of_mass.x
        cy == self.center_of_mass.y
    IN  IF new_mass > 0
        THEN [self EXCEPT
                !.center_of_mass =
                    Vector2(Rat(cx[1] * self.mass + pos.x * m * cx[2], cx[2] * new_mass),
                            Rat(cy[1] * self.mass + pos.y * m * cy[2], cy[2] * new_mass)),
                !.mass = new_mass]
        ELSE self

\* mutant of FirstChildContaining: the first child is taken untested
FirstChildContaining_untested(self, pos) ==
    IF self.children[1] # None THEN 1 ELSE 0

\* index of the first child whose box contains pos, 0 when there is none
FirstChildContaining(self, pos) ==
    LET hits == {i \in 1..4 : self.children[i] # None
                              /\ contains_point(self.children[i][1].bounds, pos)}
    IN  IF hits = {} THEN 0 ELSE CHOOSE i \in hits : \A j \in hits : i <= j

(***************************************************************************)
(* QuadTree::insert.  The result is [ok, t]: t is the node after the call, *)
(* and ok is FALSE when the recursion went below MaxDepth nested           *)
(* subdivisions, where the model stops following it.                       *)
(***************************************************************************)
RECURSIVE insert(_, _, _, _), InsertInside(_, _, _, _)

\* mutant of insert: the containment check of lines 70-73 is missing
insert_unchecked(self, p, idx, depth) == InsertInside(self, p, idx, depth)

insert(self, p, idx, depth) ==
    IF ~contains_point(self.bounds, get_position(p, idx))
    THEN [ok |-> TRUE, t |-> self]
    ELSE InsertInside(self, p, idx, depth)

\* QuadTree::insert after its containment check (lines 75-107)
InsertInside(self, p, idx, depth) ==
    LET pos == get_position(p, idx) IN
    IF is_leaf(self) /\ self.particle_idx = None
    THEN \* empty leaf: store directly
         [ok |-> TRUE,
          t  |-> [self EXCEPT !.particle_idx = Some(idx),
                              !.mass = p.mass[idx],
                              !.center_of_mass = Vector2(RatOfInt(pos.x), RatOfInt(pos.y))]]
    ELSE
      LET \* if leaf with existing particle, subdivide and re-insert
          s1 == IF is_leaf(self)
                THEN insert(subdivide([self EXCEPT !.particle_idx = None]),
                            p, self.particle_idx[1], depth)
                ELSE [ok |-> TRUE, t |-> self]
          \* insert new into appropriate child
          c  == FirstChildContaining(s1.t, pos)
          s2 == IF ~s1.ok THEN s1
                ELSE IF c = 0 THEN s1
                ELSE IF depth >= MaxDepth THEN [ok |-> FALSE, t |-> s1.t]
                ELSE LET r == insert(s1.t.children[c][1], p, idx, depth + 1)
                     IN  [ok |-> r.ok, t |-> [s1.t EXCEPT !.children[c] = Some(r.t)]]
      IN  \* incremental center-of-mass update
          IF ~s2.ok THEN s2
          ELSE [ok |-> TRUE, t |-> UpdateCenterOfMass(s2.t, pos, p.mass[idx])]

\* the tree of MyGame::new and the start of create_quadtree
EmptyWorldTree == NewQuadTree(WorldRect(0, 0, WORLD_WIDTH, WORLD_HEIGHT))

\* create_quadtree with the slots inserted in the order slots
RECURSIVE InsertAll(_, _, _)
InsertAll(r, p, slots) ==
    IF slots = <<>> \/ ~r.ok THEN r
    ELSE InsertAll(insert(r.t, p, Head(slots), 0), p, Tail(slots))

\* utils.rs create_quadtree
create_quadtree(p) ==
    InsertAll([ok |-> TRUE, t |-> EmptyWorldTree], p, [i \in 1..p.count |-> i])

----------------------------------------------------------------------------
(* particle.rs: forces and integration *)

\* ParticleSystem::reset_all_net_force
reset_all_net_force(p) ==
    [p EXCEPT !.net_force_x = [i \in 1..Len(p.net_force_x) |-> 0],
              !.net_force_y = [i \in 1..Len(p.net_force_y) |-> 0]]

\* mutant of add_to_net_force: the force replaces the accumulator
add_to_net_force_overwrite(p, idx, force) ==
    [p EXCEPT !.net_force_x[idx] = force.x,
              !.net_force_y[idx] = force.y]

\* mutant of add_to_net_force: the y component goes to the slot after idx
add_to_net_force_neighbour(p, idx, force) ==
    [p EXCEPT !.net_force_x[idx] = FAdd(p.net_force_x[idx], force.x),
              !.net_force_y[(idx % p.count) + 1] =
                  FAdd(p.net_force_y[(idx % p.count) + 1], force.y)]

\* ParticleSystem::add_to_net_force
add_to_net_force(p, idx, force) ==
    [p EXCEPT !.net_force_x[idx] = FAdd(p.net_force_x[idx], force.x),
              !.net_force_y[idx] = FAdd(p.net_force_y[idx], force.y)]

\* ParticleSystem::get_attraction_force: the pull of idx2 on idx1.  The
\* magnitude uses the softened distance r, the direction the unsoftened norm,
\* which is 0 for coincident positions: 0/0.
get_attraction_force(p, idx1, idx2) ==
    LET dx == p.pos_x[idx2] - p.pos_x[idx1]
        dy == p.pos_y[idx2] - p.pos_y[idx1]
        distance_squared == dx * dx + dy * dy
        r == Sqrt(distance_squared + SOFTENING * SOFTENING)
        norm == Sqrt(distance_squared)
        mm == G * p.mass[idx1] * p.mass[idx2]
    IN  Vector2(FDiv(dx * mm, norm * r * r), FDiv(dy * mm, norm * r * r))

\* const LANES of apply_forces_simd
LANES == 8

\* mutant of SimdLane: the position is advanced by the velocity before its update
SimdLane_old_velocity(p, idx) ==
    LET acc_x == FDiv(p.net_force_x[idx], p.mass[idx])
        acc_y == FDiv(p.net_force_y[idx], p.mass[idx])
    IN  <<FAdd(p.vel_x[idx], acc_x), FAdd(p.vel_y[idx], acc_y),
          FAdd(p.pos_x[idx], p.vel_x[idx]), FAdd(p.pos_y[idx], p.vel_y[idx])>>

\* one slot of a full batch of apply_forces_simd: <<vel_x, vel_y, pos_x, pos_y>>
SimdLane(p, idx) ==
    LET acc_x == FDiv(p.net_force_x[idx], p.mass[idx])
        acc_y == FDiv(p.net_force_y[idx], p.mass[idx])
        vel_x == FAdd(p.vel_x[idx], acc_x)
        vel_y == FAdd(p.vel_y[idx], acc_y)
    IN  <<vel_x, vel_y, FAdd(p.pos_x[idx], vel_x), FAdd(p.pos_y[idx], vel_y)>>

\* mutant of ScalarStep: the position is advanced by the velocity before its update
ScalarStep_old_velocity(p, idx) ==
    LET acc_x == FDiv(p.net_force_x[idx], p.mass[idx])
        acc_y == FDiv(p.net_force_y[idx], p.mass[idx])
    IN  <<FAdd(p.vel_x[idx], acc_x), FAdd(p.vel_y[idx], acc_y),
          FAdd(p.pos_x[idx], p.vel_x[idx]), FAdd(p.pos_y[idx], p.vel_y[idx])>>

\* one slot of the scalar remainder loop of apply_forces_simd
ScalarStep(p, idx) ==
    LET acc_x == FDiv(p.net_force_x[idx], p.mass[idx])
        acc_y == FDiv(p.net_force_y[idx], p.mass[idx])
        vel_x == FAdd(p.vel_x[idx], acc_x)
        vel_y == FAdd(p.vel_y[idx], acc_y)
    IN  <<vel_x, vel_y, FAdd(p.pos_x[idx], vel_x), FAdd(p.pos_y[idx], vel_y)>>

\* mutant of apply_forces_simd: the remainder loop starts one slot late
apply_forces_simd_late_rest(p) ==
    LET batched == (p.count \div LANES) * LANES
        u(idx) == IF idx <= batched THEN SimdLane(p, idx)
                  ELSE IF idx > batched + 1 /\ idx <= p.count THEN ScalarStep(p, idx)
                  ELSE <<p.vel_x[idx], p.vel_y[idx], p.pos_x[idx], p.pos_y[idx]>>
    IN  [p EXCEPT !.vel_x = [i \in 1..Len(p.vel_x) |-> u(i)[1]],
                  !.vel_y = [i \in 1..Len(p.vel_y) |-> u(i)[2]],
                  !.pos_x = [i \in 1..Len(p.pos_x) |-> u(i)[3]],
                  !.pos_y = [i \in 1..Len(p.pos_y) |-> u(i)[4]]]

\* ParticleSystem::apply_forces_simd: full batches of LANES slots, then the rest
apply_forces_simd(p) ==
    LET batched == (p.count \div LANES) * LANES
        u(idx) == IF idx <= batched THEN SimdLane(p, idx)
                  ELSE IF idx <= p.count THEN ScalarStep(p, idx)
                  ELSE <<p.vel_x[idx], p.vel_y[idx], p.pos_x[idx], p.pos_y[idx]>>
    IN  [p EXCEPT !.vel_x = [i \in 1..Len(p.vel_x) |-> u(i)[1]],
                  !.vel_y = [i \in 1..Len(p.vel_y) |-> u(i)[2]],
                  !.pos_x = [i \in 1..Len(p.pos_x) |-> u(i)[3]],
                  !.pos_y = [i \in 1..Len(p.pos_y) |-> u(i)[4]]]

\* a purely scalar loop over every slot with the formula of lines 164-169
RECURSIVE ScalarLoopFrom(_, _)
ScalarLoopFrom(p, idx) ==
    IF idx > p.count THEN p
    ELSE LET u == ScalarStep(p, idx)
         IN  ScalarLoopFrom([p EXCEPT !.vel_x[idx] = u[1], !.vel_y[idx] = u[2],
                                      !.pos_x[idx] = u[3], !.pos_y[idx] = u[4]],
                            idx + 1)

\* ParticleSystem::get_velocity_norm
get_velocity_norm(p, idx) == Sqrt(p.vel_x[idx] * p.vel_x[idx] + p.vel_y[idx] * p.vel_y[idx])

\* the norm the batch loops of find_max/min_velocity_norm compute for a lane:
\* vx and vy are loaded from net_force_x and net_force_y
BatchNorm(p, idx) ==
    Sqrt(p.net_force_x[idx] * p.net_force_x[idx] + p.net_force_y[idx] * p.net_force_y[idx])

\* f32::INFINITY
INFINITY == 1000000

MaxOf(S) == CHOOSE m \in S : \A k \in S : k <= m
MinOf(S) == CHOOSE m \in S : \A k \in S : m <= k

\* ParticleSystem::find_max_velocity_norm
find_max_velocity_norm(p) ==
    LET batched == (p.count \div LANES) * LANES
        max_chunk == MaxOf({0} \cup { BatchNorm(p, i) : i \in 1..batched })
    IN  MaxOf({max_chunk} \cup { get_velocity_norm(p, j) : j \in (batched + 1)..p.count })

\* ParticleSystem::find_min_velocity_norm
find_min_velocity_norm(p) ==
    IF p.count = 0 THEN 0
    ELSE LET batched == (p.count \div LANES) * LANES
             min_chunk == MinOf({INFINITY} \cup { BatchNorm(p, i) : i \in 1..batched })
         IN  MinOf({min_chunk} \cup { get_velocity_norm(p, j) : j \in (batched + 1)..p.count })

\* self.mass[i] as u32, on the integers of the model: negative values give 0
MassKey(m) == IF m < 0 THEN 0 ELSE m

\* the place of slot i in indices after the stable sort_by_key of line 258
SortRank(p, i) ==
    1 + Cardinality({ j \in 1..p.count :
                        \/ MassKey(p.mass[j]) < MassKey(p.mass[i])
                        \/ MassKey(p.mass[j]) = MassKey(p.mass[i]) /\ j < i })

\* indices of sort_by_mass, lines 257-258
SortedIndices(p) == [r \in 1..p.count |-> CHOOSE i \in 1..p.count : SortRank(p, i) = r]

\* mutant of sort_by_mass: the identifiers are not moved with the rest
sort_by_mass_ids_left(p) ==
    LET indices == SortedIndices(p)
        new(f) == [r \in 1..p.count |-> f[indices[r]]]
    IN  [p EXCEPT !.pos_x = new(p.pos_x), !.pos_y = new(p.pos_y),
                  !.vel_x = new(p.vel_x), !.vel_y = new(p.vel_y),
                  !.net_force_x = new(p.net_force_x), !.net_force_y = new(p.net_force_y),
                  !.mass = new(p.mass), !.radius = new(p.radius)]

\* ParticleSystem::sort_by_mass
sort_by_mass(p) ==
    LET indices == SortedIndices(p)
        new(f) == [r \in 1..p.count |-> f[indices[r]]]
    IN  [p EXCEPT !.pos_x = new(p.pos_x), !.pos_y = new(p.pos_y),
                  !.vel_x = new(p.vel_x), !.vel_y = new(p.vel_y),
                  !.net_force_x = new(p.net_force_x), !.net_force_y = new(p.net_force_y),
                  !.mass = new(p.mass), !.radius = new(p.radius),
                  !.indices = new(p.indices)]

----------------------------------------------------------------------------
(* quadtree.rs: force traversal and region query *)

\* displacement from pos to the node's center_of_mass as <<X, Y, D>>, meaning
\* (X/D, Y/D), and q with dist^2 = q / D^2 for the softened distance dist
NodeOffset(self, pos) ==
    LET cx == self.center_of_mass.x
        cy == self.center_of_mass.y
        D == cx[2] * cy[2]
        X == (cx[1] - pos.x * cx[2]) * cy[2]
        Y == (cy[1] - pos.y * cy[2]) * cx[2]
    IN  [X |-> X, Y |-> Y, D |-> D,
         q |-> X * X + Y * Y + SOFTENING * SOFTENING * D * D]

\* mutant of Accepts: dist is taken without the softening term
Accepts_unsoftened(self, pos, theta) ==
    LET o == NodeOffset(self, pos)
        w == Rat(self.bounds.w, Scale)
    IN  theta[1] * theta[1] * (o.X * o.X + o.Y * o.Y) * w[2] * w[2]
            > w[1] * w[1] * theta[2] * theta[2] * o.D * o.D

\* self.bounds.w / dist < theta, for theta = theta[1] / theta[2] >= 0; exact
Accepts(self, pos, theta) ==
    LET o == NodeOffset(self, pos)
        w == Rat(self.bounds.w, Scale)
    IN  theta[1] * theta[1] * o.q * w[2] * w[2]
            > w[1] * w[1] * theta[2] * theta[2] * o.D * o.D

\* the force calculate_force adds for an accepted node: the node as one point
\* of mass self.mass at center_of_mass, direction and magnitude from dist
NodeForce(self, p, idx) ==
    LET o == NodeOffset(self, get_position(p, idx))
        dist == Sqrt(o.q \div (o.D * o.D))
        mm == G * p.mass[idx] * self.mass
    IN  Vector2(FDiv(o.X * mm, o.D * dist * dist * dist),
                FDiv(o.Y * mm, o.D * dist * dist * dist))

(***************************************************************************)
(* The forces one QuadTree::calculate_force call hands to add_to_net_force,*)
(* in call order, for the acceptance threshold theta.  Each is recorded    *)
(* with where it came from: a leaf (the other slot) or an accepted node.   *)
(***************************************************************************)
RECURSIVE ForceTerms(_, _, _, _)
ForceTerms(self, p, idx, theta) ==
    IF is_leaf(self)
    THEN IF self.particle_idx # None /\ self.particle_idx[1] # idx
         THEN << [src |-> "leaf", other |-> self.particle_idx[1],
                  mass |-> p.mass[self.particle_idx[1]], bounds |-> self.bounds,
                  f |-> get_attraction_force(p, idx, self.particle_idx[1])] >>
         ELSE << >>
    ELSE IF Accepts(self, get_position(p, idx), theta)
    THEN << [src |-> "node", other |-> 0, mass |-> self.mass, bounds |-> self.bounds,
             f |-> NodeForce(self, p, idx)] >>
    ELSE LET c(i) == IF self.children[i] = None THEN << >>
                     ELSE ForceTerms(self.children[i][1], p, idx, theta)
         IN  c(1) \o c(2) \o c(3) \o c(4)

RECURSIVE AddForces(_, _, _)
AddForces(p, idx, terms) ==
    IF terms = << >> THEN p
    ELSE AddForces(add_to_net_force(p, idx, Head(terms).f), idx, Tail(terms))

\* QuadTree::calculate_force with the threshold as a parameter
calculate_force_with(self, p, idx, theta) ==
    AddForces(p, idx, ForceTerms(self, p, idx, theta))

\* QuadTree::calculate_force
calculate_force(self, p, idx) == calculate_force_with(self, p, idx, THETA)

\* QuadTree::calculate_force_simd (not in src/): calculate_force for each
\* index of idxs in turn
RECURSIVE calculate_force_simd(_, _, _)
calculate_force_simd(self, p, idxs) ==
    IF idxs = << >> THEN p
    ELSE calculate_force_simd(self, calculate_force(self, p, Head(idxs)), Tail(idxs))

\* QuadTree::query_recursive: the slots pushed to out, in push order
RECURSIVE query_recursive(_, _, _)
query_recursive(self, area, p) ==
    IF ~intersects(self.bounds, area) THEN << >>
    ELSE LET own == IF self.particle_idx # None
                       /\ contains_point(area, get_position(p, self.particle_idx[1]))
                    THEN self.particle_idx ELSE << >>
             c(i) == IF self.children[i] = None THEN << >>
                     ELSE query_recursive(self.children[i][1], area, p)
         IN  IF is_leaf(self) THEN own
             ELSE own \o c(1) \o c(2) \o c(3) \o c(4)

\* QuadTree::query
query(self, area, p) == query_recursive(self, area, p)

----------------------------------------------------------------------------
(* Stores the checks start from *)

\* positions: three close together, one in another quadrant, and two outside
\* the world, one of them on the excluded far edge x = WORLD_WIDTH
Positions == { <<0, 0>>, <<1, 0>>, <<1, 1>>, <<5, 1>>, <<-1, 0>>, <<8, 1>> }
Masses == {1, 2}

Store(n, pos, vel, m) ==
    [ pos_x |-> [i \in 1..n |-> pos[i][1]], pos_y |-> [i \in 1..n |-> pos[i][2]],
      vel_x |-> [i \in 1..n |-> vel[i][1]], vel_y |-> [i \in 1..n |-> vel[i][2]],
      net_force_x |-> [i \in 1..n |-> 0], net_force_y |-> [i \in 1..n |-> 0],
      mass |-> m, radius |-> [i \in 1..n |-> 1], indices |-> [i \in 1..n |-> i - 1],
      count |-> n ]

\* sort_by_mass has run in MyGame::new: masses are in non-decreasing order
SortedByMass(m) == \A i \in 1..(Len(m) - 1) : m[i] <= m[i + 1]

\* slots of equal mass are listed by position: the order sort_by_mass leaves
\* among them is arbitrary, and one listing of each is kept
TiesByPosition(pos, m) ==
    \A i \in 1..(Len(m) - 1) :
        m[i] = m[i + 1] =>
            \/ pos[i][1] < pos[i + 1][1]
            \/ pos[i][1] = pos[i + 1][1] /\ pos[i][2] <= pos[i + 1][2]

\* the stores of n particles at rest, as MyGame::new leaves them
SortedStores(n) ==
    LET ms == {mm \in [1..n -> Masses] : SortedByMass(mm)}
        zero == [i \in 1..n |-> <<0, 0>>]
    IN  UNION { { Store(n, pos, zero, m) :
                    pos \in {pp \in [1..n -> Positions] : TiesByPosition(pp, m)} }
                : m \in ms }

\* stores at rest
StoresAtRest == UNION { SortedStores(n) : n \in 1..MaxParticles }

----------------------------------------------------------------------------
(* Specification SpecTree: QuadTree::insert called on an initially empty   *)
(* tree, once per slot, in any order.                                      *)

\* the query rectangles tried, in world units: one reaching beyond the world,
\* one cell, one row, and one across the far edge of the world
Areas == { WorldRect(-2, -2, 12, 12), WorldRect(0, 0, 1, 1),
           WorldRect(0, 1, 6, 1), WorldRect(5, 0, 5, 4) }

\* the thresholds tried: the one of the code, and 0 (always recurse)
Thetas == { THETA, <<0, 1>> }

NaturalOrder(p) == [i \in 1..p.count |-> i]

InitTree ==
    /\ particles \in StoresAtRest
    /\ qt = EmptyWorldTree
    /\ pc = "insert"
    /\ force_idxs = << >>
    /\ next_idx = 0
    /\ order = << >>
    /\ query_area = None
    /\ found = << >>
    /\ calls = << >>
    /\ start = particles
    /\ frames = 0
    /\ seen = None
    /\ last = "new"
    /\ applied = 0
    /\ extremum = 0

\* one QuadTree::insert call on the tree, for a slot not yet inserted
InsertSlot(i) ==
    /\ pc = "insert"
    /\ query_area = None /\ calls = << >>
    /\ \A k \in 1..Len(order) : order[k] # i
    /\ LET r == insert(qt, particles, i, 0) IN
         IF r.ok
         THEN /\ qt' = r.t
              /\ pc' = pc
         ELSE \* the call is still subdividing below MaxDepth: not followed further
              /\ qt' = qt
              /\ pc' = "too_deep"
    /\ order' = Append(order, i)
    /\ UNCHANGED <<particles, force_idxs, next_idx, query_area, found, calls, start, frames, seen, last, applied, extremum>>

\* qt is the tree create_quadtree builds from the store
BuiltInOrder == pc = "insert" /\ order = NaturalOrder(particles)

\* one QuadTree::query call on the tree create_quadtree built
QueryArea(a) ==
    /\ BuiltInOrder
    /\ query_area = None /\ calls = << >>
    /\ query_area' = Some(a)
    /\ found' = query(qt, a, particles)
    /\ UNCHANGED <<particles, qt, pc, force_idxs, next_idx, order, calls, start, frames, seen, last, applied, extremum>>

\* one calculate_force call on the tree create_quadtree built, for a slot
\* above those already traversed
CalcForce(s, theta) ==
    /\ BuiltInOrder
    /\ query_area = None
    /\ \A k \in 1..Len(calls) : calls[k].idx < s
    /\ particles' = calculate_force_with(qt, particles, s, theta)
    /\ calls' = Append(calls, [idx |-> s, theta |-> theta])
    /\ UNCHANGED <<qt, pc, force_idxs, next_idx, order, query_area, found, start, frames, seen, last, applied, extremum>>

NextTree ==
    \/ \E i \in 1..particles.count : InsertSlot(i)
    \/ \E a \in Areas : QueryArea(a)
    \/ \E s \in 1..particles.count, theta \in Thetas : CalcForce(s, theta)

SpecTree == InitTree /\ [][NextTree]_vars

----------------------------------------------------------------------------
(* main.rs: the game loop.  update and draw are handlers of one &mut MyGame,
   called one at a time by the host loop; pc is the position inside update,
   "idle" between handler calls. *)

\* most update calls followed
MaxSteps == 2

\* MyGame::new: the store (sorted by mass) and the empty world tree
Init ==
    /\ particles \in StoresAtRest
    /\ qt = EmptyWorldTree
    /\ pc = "idle"
    /\ force_idxs = << >>
    /\ next_idx = 0
    /\ order = << >>
    /\ query_area = None
    /\ found = << >>
    /\ calls = << >>
    /\ start = particles
    /\ frames = 0
    /\ seen = None
    /\ last = "new"
    /\ applied = 0
    /\ extremum = 0

\* update, line 158: the tree mutex is taken
UpdateLock ==
    /\ pc = "idle"
    /\ frames < MaxSteps
    /\ pc' = "locked"
    /\ start' = particles
    /\ seen' = None
    /\ UNCHANGED <<particles, qt, force_idxs, next_idx, order, query_area, found, calls, frames, last, applied, extremum>>

\* update, line 160: *qt_lock = create_quadtree(&self.particles)
UpdateRebuild ==
    /\ pc = "locked"
    /\ LET r == create_quadtree(particles) IN
         IF r.ok
         THEN /\ qt' = r.t
              /\ pc' = "rebuilt"
         ELSE \* an insert is still subdividing below MaxDepth: not followed further
              /\ qt' = qt
              /\ pc' = "too_deep"
    /\ UNCHANGED <<particles, force_idxs, next_idx, order, query_area, found, calls, start, frames, seen, last, applied, extremum>>

\* update, line 161: self.particles.reset_all_net_force()
UpdateReset ==
    /\ pc = "rebuilt"
    /\ particles' = reset_all_net_force(particles)
    /\ pc' = "reset"
    /\ UNCHANGED <<qt, force_idxs, next_idx, order, query_area, found, calls, start, frames, seen, last, applied, extremum>>

\* update, lines 163-166: force_idxs becomes every slot of the store, in order
UpdateFillIdxs ==
    /\ pc = "reset"
    /\ force_idxs' = [i \in 1..particles.count |-> i]
    /\ next_idx' = 1
    /\ pc' = "traverse"
    /\ UNCHANGED <<particles, qt, order, query_area, found, calls, start, frames, seen, last, applied, extremum>>

\* update, line 167: calculate_force_simd, one index of force_idxs at a time
UpdateTraverse ==
    /\ pc = "traverse"
    /\ next_idx <= Len(force_idxs)
    /\ particles' = calculate_force(qt, particles, force_idxs[next_idx])
    /\ next_idx' = next_idx + 1
    /\ UNCHANGED <<qt, pc, force_idxs, order, query_area, found, calls, start, frames, seen, last, applied, extremum>>

\* update, lines 167-168: calculate_force_simd returns and the mutex is released
UpdateUnlock ==
    /\ pc = "traverse"
    /\ next_idx > Len(force_idxs)
    /\ pc' = "unlocked"
    /\ UNCHANGED <<particles, qt, force_idxs, next_idx, order, query_area, found, calls, start, frames, seen, last, applied, extremum>>

\* mutant of UpdateIntegrate: integration does not wait for the traversal
UpdateIntegrate_early ==
    /\ pc = "traverse"
    /\ particles' = apply_forces_simd(particles)
    /\ pc' = "idle"
    /\ frames' = frames + 1
    /\ UNCHANGED <<qt, force_idxs, next_idx, order, query_area, found, calls, start, seen, last, applied, extremum>>

\* update, lines 169-171: apply_forces_simd, then move_on_mouse (which touches
\* only the view origin) and the return
UpdateIntegrate ==
    /\ pc = "unlocked"
    /\ particles' = apply_forces_simd(particles)
    /\ pc' = "idle"
    /\ frames' = frames + 1
    /\ UNCHANGED <<qt, force_idxs, next_idx, order, query_area, found, calls, start, seen, last, applied, extremum>>

\* mutant of Draw: draw runs as soon as the tree mutex is free
Draw_on_free_mutex(a) ==
    /\ pc \in {"idle", "unlocked"}
    /\ seen' = Some([qt |-> qt, particles |-> particles, start |-> start,
                     frames |-> frames, area |-> a,
                     particles_to_draw |-> query(qt, a, particles)])
    /\ UNCHANGED <<particles, qt, pc, force_idxs, next_idx, order, query_area, found, calls, start, frames, last, applied, extremum>>

\* draw, lines 199-200: the tree is locked and queried with the view rectangle;
\* seen records what the handler read
Draw(a) ==
    /\ pc = "idle"
    /\ seen' = Some([qt |-> qt, particles |-> particles, start |-> start,
                     frames |-> frames, area |-> a,
                     particles_to_draw |-> query(qt, a, particles)])
    /\ UNCHANGED <<particles, qt, pc, force_idxs, next_idx, order, query_area, found, calls, start, frames, last, applied, extremum>>

Next ==
    \/ UpdateLock
    \/ UpdateRebuild
    \/ UpdateReset
    \/ UpdateFillIdxs
    \/ UpdateTraverse
    \/ UpdateUnlock
    \/ UpdateIntegrate
    \/ \E a \in Areas : Draw(a)

Spec == Init /\ [][Next]_vars

----------------------------------------------------------------------------
(* Specification SpecStore: the methods of ParticleSystem called on a      *)
(* store on its own, with the net forces held as they are.                 *)

\* most slots in a store: one full batch of LANES and a remainder
MaxSlots == 9
\* most apply_forces_simd calls followed
MaxCalls == 5

\* the particles a store is filled with: one at rest under a constant force,
\* one at rest and one moving under no force, and a heavy one moving under a
\* force
Pushed == [pos |-> <<0, 0>>, vel |-> <<0, 0>>,  net_force |-> <<10, 0>>, mass |-> 2, radius |-> 1]
Resting == [pos |-> <<0, 0>>, vel |-> <<0, 0>>,  net_force |-> <<0, 0>>,  mass |-> 1, radius |-> 2]
Coasting == [pos |-> <<1, 1>>, vel |-> <<3, 4>>,  net_force |-> <<0, 0>>,  mass |-> 1, radius |-> 1]
Heavy == [pos |-> <<5, 1>>, vel |-> <<0, -1>>, net_force |-> <<6, 8>>,  mass |-> 3, radius |-> 1]
Particles == { Pushed, Resting, Coasting, Heavy }

\* a store of n slots: particle b at slot k, particle a everywhere else, the
\* identifiers in order of insertion
FilledStore(n, a, b, k) ==
    LET at(i) == IF i = k THEN b ELSE a IN
    [ pos_x |-> [i \in 1..n |-> at(i).pos[1]], pos_y |-> [i \in 1..n |-> at(i).pos[2]],
      vel_x |-> [i \in 1..n |-> at(i).vel[1]], vel_y |-> [i \in 1..n |-> at(i).vel[2]],
      net_force_x |-> [i \in 1..n |-> at(i).net_force[1]],
      net_force_y |-> [i \in 1..n |-> at(i).net_force[2]],
      mass |-> [i \in 1..n |-> at(i).mass], radius |-> [i \in 1..n |-> at(i).radius],
      indices |-> [i \in 1..n |-> i - 1], count |-> n ]

FilledStores ==
    { FilledStore(n, a, b, k) : n \in 0..MaxSlots, a \in Particles, b \in Particles,
                                k \in 1..MaxSlots }

InitStore ==
    /\ particles \in FilledStores
    /\ qt = EmptyWorldTree
    /\ pc = "store"
    /\ force_idxs = << >>
    /\ next_idx = 0
    /\ order = << >>
    /\ query_area = None
    /\ found = << >>
    /\ calls = << >>
    /\ start = particles
    /\ frames = 0
    /\ seen = None
    /\ last = "new"
    /\ applied = 0
    /\ extremum = 0

\* one ParticleSystem::apply_forces_simd call
ApplyForces ==
    /\ applied < MaxCalls
    /\ particles' = apply_forces_simd(particles)
    /\ applied' = applied + 1
    /\ last' = "apply_forces_simd"
    /\ extremum' = 0
    /\ UNCHANGED <<qt, pc, force_idxs, next_idx, order, query_area, found, calls, start, frames, seen>>

\* the ParticleSystem::sort_by_mass call of MyGame::new, on the store just filled
SortByMass ==
    /\ last = "new"
    /\ particles' = sort_by_mass(particles)
    /\ last' = "sort_by_mass"
    /\ UNCHANGED <<qt, pc, force_idxs, next_idx, order, query_area, found, calls, start, frames, seen, applied, extremum>>

\* one ParticleSystem::find_max_velocity_norm call
FindMax ==
    /\ extremum' = find_max_velocity_norm(particles)
    /\ last' = "find_max_velocity_norm"
    /\ UNCHANGED <<particles, qt, pc, force_idxs, next_idx, order, query_area, found, calls, start, frames, seen, applied>>

\* one ParticleSystem::find_min_velocity_norm call
FindMin ==
    /\ extremum' = find_min_velocity_norm(particles)
    /\ last' = "find_min_velocity_norm"
    /\ UNCHANGED <<particles, qt, pc, force_idxs, next_idx, order, query_area, found, calls, start, frames, seen, applied>>

NextStore ==
    \/ ApplyForces
    \/ SortByMass
    \/ FindMax
    \/ FindMin

SpecStore == InitStore /\ [][NextStore]_vars

----------------------------------------------------------------------------
(* Reading a tree *)

\* the slots held by the leaves below (and at) a node, in child order
RECURSIVE SubtreeSlots(_)
SubtreeSlots(n) ==
    IF is_leaf(n) THEN n.particle_idx
    ELSE LET c(i) == IF n.children[i] = None THEN <<>> ELSE SubtreeSlots(n.children[i][1])
         IN  c(1) \o c(2) \o c(3) \o c(4)

\* a node and all the nodes below it
RECURSIVE SubNodes(_)
SubNodes(n) ==
    {n} \cup UNION { IF n.children[i] = None THEN {} ELSE SubNodes(n.children[i][1])
                     : i \in 1..4 }

\* number of levels below a node
RECURSIVE Depth(_)
Depth(n) ==
    IF is_leaf(n) THEN 0
    ELSE LET d(i) == IF n.children[i] = None THEN 0 ELSE 1 + Depth(n.children[i][1])
             ds == {d(i) : i \in 1..4}
         IN  CHOOSE m \in ds : \A k \in ds : k <= m

RECURSIVE SumSeq(_)
SumSeq(s) == IF s = <<>> THEN 0 ELSE Head(s) + SumSeq(Tail(s))

\* total mass, and mass-weighted coordinate sums, of the slots in a sequence
MassOf(p, slots) == SumSeq([k \in 1..Len(slots) |-> p.mass[slots[k]]])
MomentX(p, slots) == SumSeq([k \in 1..Len(slots) |-> p.mass[slots[k]] * p.pos_x[slots[k]]])
MomentY(p, slots) == SumSeq([k \in 1..Len(slots) |-> p.mass[slots[k]] * p.pos_y[slots[k]]])

\* the fixed world rectangle
WorldBounds == WorldRect(0, 0, WORLD_WIDTH, WORLD_HEIGHT)
InWorld(p, i) == contains_point(WorldBounds, get_position(p, i))

\* no two slots of the world rectangle share a position
DistinctInWorld(p) ==
    \A i, j \in 1..p.count :
        (i # j /\ InWorld(p, i) /\ InWorld(p, j)) => get_position(p, i) # get_position(p, j)

----------------------------------------------------------------------------
(* Claims on QuadTree::insert, under SpecTree *)

\* a node's mass is the sum over the leaves below it, and its center_of_mass
\* their mass-weighted mean position
AggregateExact(p, n) ==
    LET slots == SubtreeSlots(n)
        m == MassOf(p, slots)
    IN  /\ n.mass = m
        /\ m > 0 => /\ n.center_of_mass.x = Rat(MomentX(p, slots), m)
                     /\ n.center_of_mass.y = Rat(MomentY(p, slots), m)

\* C1: after any sequence of insert calls on an initially empty tree, every
\* node's mass is the sum of the masses of the particles in the leaves of its
\* subtree and its center_of_mass their mass-weighted average position, each
\* particle counted once.
C1_AggregatesExact ==
    pc = "insert" => \A n \in SubNodes(qt) : AggregateExact(particles, n)

IsEmptyNode(n) == n.particle_idx = None /\ \A i \in 1..4 : n.children[i] = None
IsLeafNode(n) == n.particle_idx # None /\ \A i \in 1..4 : n.children[i] = None
IsInternalNode(n) ==
    /\ n.particle_idx = None
    /\ \A i \in 1..4 : n.children[i] # None
    /\ LET x == n.bounds.top_left_pos.x
           y == n.bounds.top_left_pos.y
           b(i) == n.children[i][1].bounds
       IN  /\ \A i \in 1..4 : 2 * b(i).w = n.bounds.w /\ 2 * b(i).h = n.bounds.h
           /\ b(1).top_left_pos = Vector2(x, y)
           /\ b(2).top_left_pos = Vector2(x + b(1).w, y)
           /\ b(3).top_left_pos = Vector2(x, y + b(1).h)
           /\ b(4).top_left_pos = Vector2(x + b(1).w, y + b(1).h)

\* C8: after any sequence of insert calls every node is empty, a leaf, or
\* internal with four children on the equal quadrants of its box.
C8_ThreeStates ==
    \A n \in SubNodes(qt) : IsEmptyNode(n) \/ IsLeafNode(n) \/ IsInternalNode(n)

\* C8 witness: a tree whose root was subdivided twice, holding all three kinds
C8_Witness ==
    /\ Depth(qt) >= 2
    /\ \E n \in SubNodes(qt) : IsEmptyNode(n)
    /\ \E n \in SubNodes(qt) : IsLeafNode(n)
    /\ \E n \in SubNodes(qt) : IsInternalNode(n) /\ n # qt

----------------------------------------------------------------------------
(* Claims on create_quadtree, query and calculate_force, under SpecTree *)

AllSlots(p) == [i \in 1..p.count |-> i]

\* all slots of the store have been handed to insert, in some order
AllInserted == pc = "insert" /\ Len(order) = particles.count

\* C2: for particles inside the world rectangle, the root's mass and
\* center_of_mass after inserting the slots in any order equal those of
\* create_quadtree (slot order), and equal the total mass and the
\* mass-weighted average position of all particles.
C2_OrderIndependent ==
    (AllInserted /\ \A i \in 1..particles.count : InWorld(particles, i)) =>
        LET nat == create_quadtree(particles)
            all == AllSlots(particles)
            m   == MassOf(particles, all)
        IN  /\ nat.ok
            /\ qt.mass = nat.t.mass
            /\ qt.center_of_mass = nat.t.center_of_mass
            /\ qt.mass = m
            /\ m > 0 => /\ qt.center_of_mass.x = Rat(MomentX(particles, all), m)
                         /\ qt.center_of_mass.y = Rat(MomentY(particles, all), m)

\* the slots of a sequence, as a set
Range(s) == { s[k] : k \in 1..Len(s) }
NoDuplicates(s) == \A i, j \in 1..Len(s) : i # j => s[i] # s[j]

\* the linear filter over the store by the half-open rule
LinearFilter(p, r) == { i \in 1..p.count : contains_point(r, get_position(p, i)) }

RECURSIVE DirectSum(_, _, _, _)
DirectSum(p, s, js, acc) ==
    IF js = {} THEN acc
    ELSE LET j == CHOOSE k \in js : \A l \in js : k <= l
             f == get_attraction_force(p, s, j)
         IN  DirectSum(p, s, js \ {j}, Vector2(FAdd(acc.x, f.x), FAdd(acc.y, f.y)))

Others(p, s) == (1..p.count) \ {s}

RemoveSlot(p, k) ==
    LET cut(f) == [i \in 1..(p.count - 1) |-> IF i < k THEN f[i] ELSE f[i + 1]]
    IN  [count |-> p.count - 1,
         pos_x |-> cut(p.pos_x), pos_y |-> cut(p.pos_y),
         vel_x |-> cut(p.vel_x), vel_y |-> cut(p.vel_y),
         net_force_x |-> cut(p.net_force_x), net_force_y |-> cut(p.net_force_y),
         mass |-> cut(p.mass)]

\* where slot s is once slot k is removed
Shifted(s, k) == IF s > k THEN s - 1 ELSE s

\* a tree with the slot numbers above k moved down by one
RECURSIVE Relabel(_, _)
Relabel(n, k) ==
    [n EXCEPT !.particle_idx = IF n.particle_idx = None THEN None
                               ELSE Some(Shifted(n.particle_idx[1], k)),
              !.children = [i \in 1..4 |->
                              IF n.children[i] = None THEN None
                              ELSE Some(Relabel(n.children[i][1], k))]]

\* C5: a particle outside the world rectangle is never inserted: no node
\* holds its slot, the tree is the one built from the store without it, and
\* the force computed on every other particle is the one computed without it.
C5_OutsideIsAbsent ==
    BuiltInOrder =>
        \A k \in 1..particles.count :
            ~InWorld(particles, k) =>
                LET without == RemoveSlot(start, k)
                    t == create_quadtree(without).t
                IN  /\ k \notin Range(SubtreeSlots(qt))
                    /\ Relabel(qt, k) = t
                    /\ \A c \in 1..Len(calls) :
                          calls[c].idx # k =>
                              get_net_force(particles, calls[c].idx)
                                  = get_net_force(
                                        calculate_force_with(t, without,
                                            Shifted(calls[c].idx, k), calls[c].theta),
                                        Shifted(calls[c].idx, k))

\* C5 witness: a slot outside the world next to an in-world slot, and a
\* traversal that left a force on another in-world slot
C5_Witness ==
    /\ BuiltInOrder
    /\ \E k, j \in 1..particles.count :
          /\ ~InWorld(particles, k) /\ InWorld(particles, j)
          /\ Abs(particles.pos_x[k] - particles.pos_x[j]) <= 1
          /\ particles.pos_y[k] = particles.pos_y[j]
    /\ \E c \in 1..Len(calls) :
          /\ InWorld(particles, calls[c].idx)
          /\ get_net_force(particles, calls[c].idx) # Vector2(0, 0)

----------------------------------------------------------------------------
(* Claims on the game loop, under Spec *)

\* the store after the traversal of the first k slots in a step begun at p
TraversedTo(p, k) ==
    calculate_force_simd(create_quadtree(p).t, reset_all_net_force(p),
                         [i \in 1..k |-> i])

\* the store one whole step after p
StepOf(p) == apply_forces_simd(TraversedTo(p, p.count))

C9_PhasesOrdered ==
    LET tree == create_quadtree(start).t IN
    /\ pc = "locked" => particles = start
    /\ pc = "rebuilt" => qt = tree /\ particles = start
    /\ pc = "reset" => qt = tree /\ particles = reset_all_net_force(start)
    /\ pc = "traverse" => qt = tree /\ particles = TraversedTo(start, next_idx - 1)
    /\ pc = "unlocked" => qt = tree /\ particles = TraversedTo(start, start.count)
    /\ (pc = "idle" /\ frames > 0) => qt = tree /\ particles = StepOf(start)

\* C9 witness: a second step has been integrated, in which a slot moved
C9_Witness ==
    /\ pc = "idle"
    /\ frames = MaxSteps
    /\ \E i \in 1..particles.count : get_position(particles, i) # get_position(start, i)

\* C10: whatever draw reads is the state MyGame::new built or the tree and
\* store of a completed update: the tree of the store the step began with and
\* that store with every slot traversed and integrated.
C10_DrawSeesCompletedStep ==
    seen # None =>
        LET d == seen[1] IN
        IF d.frames = 0
        THEN d.qt = EmptyWorldTree /\ d.particles = d.start
        ELSE d.qt = create_quadtree(d.start).t /\ d.particles = StepOf(d.start)

\* C10 witness: draw ran after a step that moved a slot, and read a non-empty
\* tree
C10_Witness ==
    /\ seen # None
    /\ seen[1].frames > 0
    /\ ~is_leaf(seen[1].qt)
    /\ seen[1].particles # seen[1].start

----------------------------------------------------------------------------
(* Claims on the force traversal, under SpecTree *)

\* C11: a calculate_force(s) call changes nothing but the net force
\* accumulator of slot s: the other accumulators, every position, velocity,
\* mass, radius and identifier, and the tree stay as they were.
C11_TraversalFrame ==
    [][ calls' # calls =>
          LET s == calls'[Len(calls')].idx IN
          /\ qt' = qt
          /\ particles' = [particles EXCEPT
                              !.net_force_x[s] = particles'.net_force_x[s],
                              !.net_force_y[s] = particles'.net_force_y[s]] ]_vars

\* C11 witness: two traversals have run, each leaving a force with both
\* components on its own slot
C11_Witness ==
    /\ Len(calls) >= 2
    /\ \A k \in 1..Len(calls) :
          /\ particles.net_force_x[calls[k].idx] # 0
          /\ particles.net_force_y[calls[k].idx] # 0

----------------------------------------------------------------------------
(* Claims on the particle store, under SpecStore *)

\* C12: one particle of mass 2 under the constant net force (10,0), starting
\* at rest at (0,0), has velocity (5k, 0) and position (5k(k+1)/2, 0) after k
\* apply_forces_simd calls.
C12_IntegratorRecurrence ==
    start = FilledStore(1, Pushed, Pushed, 1) =>
        /\ get_velocity(particles, 1) = Vector2(5 * applied, 0)
        /\ get_position(particles, 1) = Vector2((5 * applied * (applied + 1)) \div 2, 0)

\* C12 witness: the fifth call has returned with velocity (25,0) at (75,0)
C12_Witness ==
    /\ start = FilledStore(1, Pushed, Pushed, 1)
    /\ applied = 5
    /\ get_velocity(particles, 1) = Vector2(25, 0)
    /\ get_position(particles, 1) = Vector2(75, 0)

\* a store of one particle whose net force is zero
OneUnforced(p) == p.count = 1 /\ get_net_force(p, 1) = Vector2(0, 0)

\* C13 as stated: a single particle whose net force is zero keeps its
\* velocity and its position over any number of apply_forces_simd calls.
C13_UnforcedStaysPut ==
    OneUnforced(start) =>
        /\ get_velocity(particles, 1) = get_velocity(start, 1)
        /\ get_position(particles, 1) = get_position(start, 1)

\* C13: a single particle whose net force is zero keeps its velocity, and
\* after k apply_forces_simd calls stands at its first position plus k times
\* that velocity: it keeps its position only when it is at rest.
C13_UnforcedCoasts ==
    OneUnforced(start) =>
        /\ get_velocity(particles, 1) = get_velocity(start, 1)
        /\ particles.pos_x[1] = start.pos_x[1] + applied * start.vel_x[1]
        /\ particles.pos_y[1] = start.pos_y[1] + applied * start.vel_y[1]

\* C13 witness: a moving particle under no force after three calls
C13_Witness ==
    /\ OneUnforced(start)
    /\ get_velocity(start, 1) # Vector2(0, 0)
    /\ applied = 3
    /\ get_position(particles, 1) # get_position(start, 1)

\* the tuple of attributes slot i holds
TupleAt(p, i) ==
    <<p.indices[i], p.pos_x[i], p.pos_y[i], p.vel_x[i], p.vel_y[i],
      p.net_force_x[i], p.net_force_y[i], p.mass[i], p.radius[i]>>

\* how many slots hold the tuple t
TupleCount(p, t) == Cardinality({ i \in 1..p.count : TupleAt(p, i) = t })

\* every parallel array has count entries
WellFormed(p) ==
    \A f \in {p.pos_x, p.pos_y, p.vel_x, p.vel_y, p.net_force_x, p.net_force_y,
              p.mass, p.radius, p.indices} : Len(f) = p.count

\* C14: after sort_by_mass the store holds the same multiset of tuples
\* (identifier, position, velocity, net force, mass, radius) and the same
\* count as before, and the slots are in non-decreasing order of mass
\* truncated to an unsigned integer.
C14_SortIsPermutation ==
    last = "sort_by_mass" =>
        /\ particles.count = start.count
        /\ WellFormed(particles)
        /\ \A i \in 1..start.count :
              TupleCount(particles, TupleAt(start, i)) = TupleCount(start, TupleAt(start, i))
        /\ \A i \in 1..(particles.count - 1) :
              MassKey(particles.mass[i]) <= MassKey(particles.mass[i + 1])

\* C14 witness: a sort that moved a light particle from the last slot of a
\* store of heavier ones to the first
C14_Witness ==
    /\ last = "sort_by_mass"
    /\ start.count >= 3
    /\ start.mass[start.count] < start.mass[1]
    /\ particles.indices[1] = start.count - 1
    /\ particles # start

\* C17: one apply_forces_simd call gives every slot, in a full batch or in
\* the remainder, velocity' = velocity + net force / mass and position' =
\* position + velocity', as a scalar loop over all slots does, and leaves net
\* force, mass, radius and identifiers as they were, for every count.
C17_BatchesAreScalar ==
    [][ applied' # applied =>
          /\ particles' = ScalarLoopFrom(particles, 1)
          /\ \A i \in 1..particles.count :
                /\ particles'.vel_x[i] = particles.vel_x[i] + FDiv(particles.net_force_x[i], particles.mass[i])
                /\ particles'.vel_y[i] = particles.vel_y[i] + FDiv(particles.net_force_y[i], particles.mass[i])
                /\ particles'.pos_x[i] = particles.pos_x[i] + particles'.vel_x[i]
                /\ particles'.pos_y[i] = particles.pos_y[i] + particles'.vel_y[i]
          /\ particles'.net_force_x = particles.net_force_x
          /\ particles'.net_force_y = particles.net_force_y
          /\ particles'.mass = particles.mass
          /\ particles'.radius = particles.radius
          /\ particles'.indices = particles.indices
          /\ particles'.count = particles.count ]_vars

\* C17 witness: two calls on a store of one full batch and a remainder, in
\* which the first slot of the batch and the remainder slot both moved
C17_Witness ==
    /\ applied = 2
    /\ particles.count = LANES + 1
    /\ get_position(particles, 1) # get_position(start, 1)
    /\ get_position(particles, LANES + 1) # get_position(start, LANES + 1)
    /\ get_velocity(particles, 1) # get_velocity(start, 1)

\* C18: over a non-empty store find_max_velocity_norm (find_min_velocity_norm)
\* returns the largest (smallest) Euclidean norm of one field over all slots:
\* of the velocity of every slot, or else of the net force of every slot.
C18_ExtremumOfOneField ==
    particles.count > 0 =>
        LET vel == { get_velocity_norm(particles, i) : i \in 1..particles.count }
            frc == { BatchNorm(particles, i) : i \in 1..particles.count }
        IN  /\ last = "find_max_velocity_norm" =>
                  extremum = MaxOf(vel) \/ extremum = MaxOf(frc)
            /\ last = "find_min_velocity_norm" =>
                  extremum = MinOf(vel) \/ extremum = MinOf(frc)

----------------------------------------------------------------------------
(* Claims on the acceptance rule and on the leaves, under SpecTree *)

\* (w / d) < 0.5 for the box width w of node n and the softened distance d
\* from the position of slot s to n.center_of_mass, written as 4 w^2 < d^2
\* over the common denominator of the two coordinates
BelowHalf(n, p, s) ==
    LET cx == n.center_of_mass.x
        cy == n.center_of_mass.y
        dxn == cx[1] - p.pos_x[s] * cx[2]
        dyn == cy[1] - p.pos_y[s] * cy[2]
        den == cx[2] * cx[2] * cy[2] * cy[2]
        w == Rat(n.bounds.w, Scale)
    IN  4 * w[1] * w[1] * den
          < w[2] * w[2] * (dxn * dxn * cy[2] * cy[2] + dyn * dyn * cx[2] * cx[2]
                             + SOFTENING * SOFTENING * den)

\* the forces the traversal adds for slot s in the four children of n, in order
ChildTerms(n, p, s) ==
    ForceTerms(n.children[1][1], p, s, THETA) \o ForceTerms(n.children[2][1], p, s, THETA)
        \o ForceTerms(n.children[3][1], p, s, THETA) \o ForceTerms(n.children[4][1], p, s, THETA)

\* the slot and threshold of the latest calculate_force call
LastCall == calls[Len(calls)]

\* C15: in a calculate_force call with threshold 0.5, at an internal node,
\* with d the softened distance from the particle to the node's
\* center_of_mass, the traversal adds exactly one force, from the node's
\* aggregate mass, and visits nothing below if (w / d) < 0.5; otherwise it
\* adds nothing for the node itself and what the traversals of all four
\* children add.  An empty node adds nothing.
C15_AcceptanceRule ==
    (calls # << >> /\ LastCall.theta = THETA) =>
      \A n \in SubNodes(qt) :
        LET s == LastCall.idx
            terms == ForceTerms(n, particles, s, THETA)
        IN
        /\ (is_leaf(n) /\ n.particle_idx = None) => terms = << >>
        /\ (~is_leaf(n) /\ BelowHalf(n, particles, s)) =>
              /\ Len(terms) = 1
              /\ terms[1].src = "node"
              /\ terms[1].mass = n.mass
              /\ terms[1].bounds = n.bounds
              /\ terms[1].f = NodeForce(n, particles, s)
        /\ (~is_leaf(n) /\ ~BelowHalf(n, particles, s)) =>
              /\ terms = ChildTerms(n, particles, s)
              /\ \A k \in 1..Len(terms) : terms[k].bounds # n.bounds

\* C15 witness: a call with threshold 0.5 has returned that opened the root,
\* took an internal node below it as one point mass, and passed an empty leaf
C15_Witness ==
    /\ calls # << >>
    /\ LastCall.theta = THETA
    /\ ~is_leaf(qt) /\ ~BelowHalf(qt, particles, LastCall.idx)
    /\ \E k \in 1..Len(ForceTerms(qt, particles, LastCall.idx, THETA)) :
          ForceTerms(qt, particles, LastCall.idx, THETA)[k].src = "node"
    /\ \E n \in SubNodes(qt) : is_leaf(n) /\ n.particle_idx = None
    /\ get_net_force(particles, LastCall.idx) # Vector2(0, 0)

\* C16: the traversal for slot s adds nothing for the leaf holding s and never
\* takes as one point mass an internal node whose subtree holds s.
C16_SelfNeverAggregated ==
    (calls # << >> /\ LastCall.theta = THETA) =>
        LET s == LastCall.idx
            terms == ForceTerms(qt, particles, s, THETA)
        IN  \A k \in 1..Len(terms) :
              /\ terms[k].src = "leaf" => terms[k].other # s
              /\ terms[k].src = "node" =>
                    \A n \in SubNodes(qt) :
                        n.bounds = terms[k].bounds => s \notin Range(SubtreeSlots(n))

\* C20: after any sequence of inserts of a store whose in-world positions are
\* pairwise distinct, every inserted slot of the world rectangle is held by
\* exactly one leaf, whose box contains its position, and no other slot is
\* held by any leaf.
C20_OneLeafPerSlot ==
    (pc = "insert" /\ DistinctInWorld(particles)) =>
        LET held == SubtreeSlots(qt)
            inserted == { i \in Range(order) : InWorld(particles, i) }
        IN  /\ Range(held) = inserted
            /\ NoDuplicates(held)
            /\ \A i \in inserted :
                  \E n \in SubNodes(qt) :
                      /\ is_leaf(n) /\ n.particle_idx = Some(i)
                      /\ contains_point(n.bounds, get_position(particles, i))

\* C20 witness: three distinct in-world slots are inserted and two of them
\* lie three subdivisions below the root
C20_Witness ==
    /\ pc = "insert"
    /\ DistinctInWorld(particles)
    /\ Len(order) = 3
    /\ \A i \in 1..3 : InWorld(particles, i)
    /\ Depth(qt) >= 3

----------------------------------------------------------------------------
(* Claim on what draw queries, under Spec *)

\* C19: when draw runs after a completed update whose store lay in the world
\* rectangle before and after the integration, query(viewport) returns
\* exactly the slots whose position after the integration lies in the
\* viewport: none that moved into it is left out.
C19_DrawnAreInView ==
    seen # None =>
        LET d == seen[1] IN
        ( /\ d.frames >= 1
          /\ \A i \in 1..d.particles.count : InWorld(d.start, i) /\ InWorld(d.particles, i) )
        => Range(d.particles_to_draw) = LinearFilter(d.particles, d.area)

====
